---- MODULE Spec2Model ----
(***************************************************************************)
(* Model of the concurrent call-analysis pipeline of callq:                *)
(*   pipelines/call_analysis.py  analyze_calls_async / run_analysis,       *)
(*                               analyze_single_call                       *)
(*   clients/llm.py              LLM.evaluate_call_async                   *)
(* One asyncio task per record that carries a transcript; an action is the *)
(* code a task (or run_analysis) runs between two suspension points.       *)
(***************************************************************************)
EXTENDS Integers, Sequences, FiniteSets, TLC

\* ---------------------------------------------------------------- bounds
MaxCalls == 3          \* records handed to analyze_calls_async
MaxConcurrent == 2     \* largest max_concurrent tried
MaxTokens == 2         \* largest usage.total_tokens of one response

\* ------------------------------------------------------ program constants
max_retries == 3             \* llm.py: transport attempts per invocation
max_json_retries == 3        \* call_analysis.py: inner JSON attempts per record
\* variant: gather without return_exceptions
return_exceptions_off == FALSE
return_exceptions == TRUE    \* asyncio.gather(*tasks, return_exceptions=True)

\* What one HTTP exchange of evaluate_call_async can end in, by the branch of
\* the status chain (llm.py 150-200) that handles it.
\*   ok200    status 200, choices[0].message.content non-empty
\*   empty200 status 200, choices or content empty/missing
\*   s429     status 429
\*   s5xx     500 <= status < 600
\*   s4xx     status >= 400, not 429, not 5xx
\*   neterr   aiohttp.ClientError or asyncio.TimeoutError
\*   other    any status that is neither 200 nor >= 400 (1xx, 3xx, 201..299)
Exchanges == {"ok200", "empty200", "s429", "s5xx", "s4xx", "neterr", "other"}

\* What the content of an ok200 response leads to in analyze_single_call:
\*   sales     parses, is_sales_call true, Result.from_list builds
\*   nonsales  parses, is_sales_call false or missing
\*   badjson   json.loads raises JSONDecodeError
\*   badshape  another exception in LLMResponse.from_dict, parse_llm_response
\*             or Result.from_list (KeyError, AttributeError, TypeError)
Contents == {"sales", "nonsales", "badjson", "badshape"}

VARIABLES
    calls,            \* input list: calls[i] = the record carries a transcript
    max_concurrent,   \* the concurrency limit N
    orch,             \* run_analysis: "gather" | "done" | "raised"
    sem,              \* asyncio.Semaphore._value
    waiters,          \* asyncio.Semaphore._waiters (FIFO of task ids)
    pc,               \* per task: position in analyze_single_call
    json_attempt,     \* per task: loop variable of analyze_single_call
    attempt,          \* per task: loop variable of evaluate_call_async
    result,           \* per task: what gather collected
    tokens,           \* per task: tokens_used of the returned tuple
    successful_results, total_tokens, filtered_count, error_count,
    \* history variables, written only for the traced tasks
    traced,           \* the tasks whose history is recorded below
    cause,            \* per task: why it ended
    hist,             \* per task: exchanges of the latest invocation
    delays60,         \* per task: 60-unit sleeps of the latest invocation
    delays1,          \* per task: 1-unit sleeps of the record
    content,          \* per task: content kind of the response the latest invocation returned
    invocations,      \* per task: evaluate_call_async invocations started
    sent,             \* per task: HTTP requests sent by the latest invocation
    requests          \* per task: HTTP requests sent for the record

\* The pure functions the tasks call are studied one at a time, each in a
\* specification of its own: its input is drawn at Init, its steps are the
\* actions, and everything else stays idle.
VARIABLES
    stage,            \* how far the function under study has run ("idle": none)
    \* parse_llm_response
    raw,              \* response.get_content(), as a sequence of tokens
    parsed,           \* what parse_llm_response returned or raised
    \* Result.from_list, save_call_analysis_to_db
    data,             \* analysis_data['evaluations']: the items the model sent
    built,            \* the Result that Result.from_list returned
    rows,             \* the EvaluationDTO rows handed to save_call_complete
    \* criterion_normalizer: the label of one evaluation
    criteria,         \* the taxonomy: (category, indicator) of each Criterion
    llm,              \* (llm_category, llm_criterion) of the model's item
    labels,           \* the (category, criterion) the evaluation ends up with
    \* filter_operators_from_db
    operators,        \* the rows (id, full_name) of the operators table
    records,          \* record.call of each record: operatorUserId, operatorUserFullName
    filtered_records, \* the list returned: indices into records
    \* Recommendation / Agreement / DeclineReason.from_list
    entries,          \* the three lists of items the model sent
    survivors,        \* the three lists of the Result
    \* LLM.evaluate_call under typed_retry
    sync_pc,          \* position in typed_retry's wrapper and evaluate_call
    retry_attempt,    \* typed_retry: loop variable attempt (1..max_attempts)
    post_attempt,     \* evaluate_call: loop variable attempt (0..max_retries - 1)
    posts,            \* HTTP requests sent
    sleeps,           \* the time.sleep calls made, in order, by length
    seen              \* the kinds of exchange met so far

pipelineVars == <<calls, max_concurrent, orch, sem, waiters, pc, json_attempt, attempt,
                  result, tokens,
                  successful_results, total_tokens, filtered_count, error_count,
                  traced, cause, hist, delays60, delays1, content, invocations, sent, requests>>

parseVars == <<raw, parsed>>
resultVars == <<data, built, rows>>
labelVars == <<criteria, llm, labels>>
operatorVars == <<operators, records, filtered_records>>
entryVars == <<entries, survivors>>
syncVars == <<sync_pc, retry_attempt, post_attempt, posts, sleeps, seen>>
fnVars == <<stage, parseVars, resultVars, labelVars, operatorVars, entryVars, syncVars>>
vars == <<pipelineVars, fnVars>>

histVars == <<cause, hist, delays60, delays1, content, invocations, sent, requests>>
statVars == <<successful_results, total_tokens, filtered_count, error_count>>
inputVars == <<calls, max_concurrent, traced>>

Records == 1..Len(calls)
\* calls_with_transcription (as indices into calls)
Eligible == {i \in Records : calls[i]}

\* a history variable of task i takes its new value only if i is traced
Trace(i, old, new) == IF i \in traced THEN new ELSE old

\* ------------------------------------------------- asyncio.Semaphore
\* variant: a gate built one permit too wide
SemaphoreInitWide(n) == n + 1

\* semaphore = asyncio.Semaphore(max_concurrent)
SemaphoreInit(n) == n

\* Semaphore.locked(): no permit, or somebody already queued for one
locked(value, ws) == value = 0 \/ ws # << >>

\* -------------------------------------------- LLM.evaluate_call_async
\* variant: a 4xx other than 429 is fatal at once
BranchClientFatal(x) ==
    CASE x = "ok200"    -> "return"
      [] x = "empty200" -> "raise_value_error"
      [] x = "s429"     -> "retry60"
      [] x = "s5xx"     -> "retry60"
      [] x = "s4xx"     -> "raise_value_error"
      [] x = "neterr"   -> "retry60"
      [] x = "other"    -> "fallthrough"

\* variant: an empty 200 is retried like a transport failure
BranchEmptyRetried(x) ==
    CASE x = "ok200"    -> "return"
      [] x = "empty200" -> "retry60"
      [] x = "s429"     -> "retry60"
      [] x = "s5xx"     -> "retry60"
      [] x = "s4xx"     -> "retry60"
      [] x = "neterr"   -> "retry60"
      [] x = "other"    -> "fallthrough"

\* variant: a status outside the chain is retried after a 60-unit delay
BranchOtherRetried(x) ==
    CASE x = "ok200"    -> "return"
      [] x = "empty200" -> "raise_value_error"
      [] x = "s429"     -> "retry60"
      [] x = "s5xx"     -> "retry60"
      [] x = "s4xx"     -> "retry60"
      [] x = "neterr"   -> "retry60"
      [] x = "other"    -> "retry60"

\* The branch of the status chain an exchange takes.
Branch(x) ==
    CASE x = "ok200"    -> "return"
      [] x = "empty200" -> "raise_value_error"
      [] x = "s429"     -> "retry60"
      [] x = "s5xx"     -> "retry60"
      [] x = "s4xx"     -> "retry60"
      [] x = "neterr"   -> "retry60"
      [] x = "other"    -> "fallthrough"

\* variant: the budget check off by one, giving up one attempt early
retry_allowed_short(a) == a < max_retries - 2

\* variant: the budget check off by one, allowing one attempt more
retry_allowed_long(a) == a < max_retries

\* if attempt < max_retries - 1: sleep 60 and continue, else raise RuntimeError
retry_allowed(a) == a < max_retries - 1

\* for attempt in range(max_retries): is there a next iteration after a
loop_continues(a) == a + 1 < max_retries

\* ------------------------------------------------ analyze_single_call
\* Which exit of the try block the content of a returned response takes.
Handler(c) ==
    CASE c = "sales"    -> "report"
      [] c = "nonsales" -> "return_none"
      [] c = "badjson"  -> "except_json"
      [] c = "badshape" -> "except_exception"

\* variant: the JSON budget check off by one, allowing one attempt more
json_retry_allowed_long(j) == j < max_json_retries

\* if json_attempt < max_json_retries - 1: sleep 1 and continue, else return None
json_retry_allowed(j) == j < max_json_retries - 1

\* ------------------------------------------------------- run_analysis
\* variant: a None result counted as a failure
BucketNoneFails(r) ==
    CASE r = "exc"    -> "error"
      [] r = "none"   -> "error"
      [] r = "report" -> "success"
      [] OTHER        -> "uncounted"

\* variant: a None result is skipped without being counted
BucketNoneDropped(r) ==
    CASE r = "exc"    -> "error"
      [] r = "report" -> "success"
      [] OTHER        -> "uncounted"

\* The statistic a gathered result is counted in.
Bucket(r) ==
    CASE r = "exc"    -> "error"
      [] r = "none"   -> "filtered"
      [] r = "report" -> "success"
      [] OTHER        -> "uncounted"

\* variant: the wait ends with the first task that finishes
FirstSettled == Eligible = {} \/ \E i \in Eligible : pc[i] = "done"

\* results = await asyncio.gather(*tasks, ...): every task has finished
AllSettled == \A i \in Eligible : pc[i] = "done"

RECURSIVE ReportsNewestFirst(_)
\* variant: each report is put in front of the earlier ones
ReportsNewestFirst(n) ==
    IF n = 0 THEN << >>
    ELSE IF n \in Eligible /\ result[n] = "report"
         THEN <<n>> \o ReportsNewestFirst(n - 1)
         ELSE ReportsNewestFirst(n - 1)

RECURSIVE Reports(_)
\* successful_results: the reports in the order of results
Reports(n) ==
    IF n = 0 THEN << >>
    ELSE IF n \in Eligible /\ Bucket(result[n]) = "success"
         THEN Append(Reports(n - 1), n)
         ELSE Reports(n - 1)

RECURSIVE TokenSum(_)
\* total_tokens: sum of tokens_used over the reports
TokenSum(n) ==
    IF n = 0 THEN 0
    ELSE TokenSum(n - 1)
         + (IF n \in Eligible /\ Bucket(result[n]) = "success" THEN tokens[n] ELSE 0)

CountIn(b) == Cardinality({i \in Eligible : Bucket(result[i]) = b})

\* --------------------------------------------------- functions at rest
NoOutcome == [ok |-> FALSE, val |-> << >>]
ParseIdle == raw = << >> /\ parsed = NoOutcome
NoResult == [evaluations |-> << >>, total_score |-> 0, max_possible_score |-> 0,
             performance_percentage |-> 0]
ResultIdle == data = << >> /\ built = NoResult /\ rows = << >>
LabelIdle == criteria = << >> /\ llm = << << >>, << >> >> /\ labels = << << >>, << >> >>
OperatorIdle == operators = << >> /\ records = << >> /\ filtered_records = << >>
\* no function is under study
NoEntries == [recommendations |-> << >>, agreements |-> << >>, decline_reasons |-> << >>]
EntryIdle == entries = NoEntries /\ survivors = NoEntries
SyncIdle ==
    /\ sync_pc = "idle" /\ retry_attempt = 0 /\ post_attempt = 0
    /\ posts = 0 /\ sleeps = << >> /\ seen = {}
FnIdle ==
    /\ stage = "idle"
    /\ ParseIdle /\ ResultIdle /\ LabelIdle /\ OperatorIdle /\ EntryIdle /\ SyncIdle
\* what the study of one function leaves alone
notParse == <<pipelineVars, resultVars, labelVars, operatorVars, entryVars, syncVars>>
notResult == <<pipelineVars, parseVars, labelVars, operatorVars, entryVars, syncVars>>
notLabel == <<pipelineVars, parseVars, resultVars, operatorVars, entryVars, syncVars>>
notOperator == <<pipelineVars, parseVars, resultVars, labelVars, entryVars, syncVars>>
notEntry == <<pipelineVars, parseVars, resultVars, labelVars, operatorVars, syncVars>>
notSync == <<pipelineVars, stage, parseVars, resultVars, labelVars, operatorVars, entryVars>>

\* ------------------------------------------------------------- Init
\* The state in which run_analysis first suspends: semaphore built, one task
\* created per record with a transcript, nothing scheduled yet.
Start(cs, n, tr) ==
    /\ calls = cs
    /\ max_concurrent = n
    /\ traced = tr
    /\ orch = "gather"
    /\ sem = SemaphoreInit(n)
    /\ waiters = << >>
    /\ pc = [i \in 1..Len(cs) |-> IF cs[i] THEN "start" ELSE "absent"]
    /\ json_attempt = [i \in 1..Len(cs) |-> 0]
    /\ attempt = [i \in 1..Len(cs) |-> 0]
    /\ result = [i \in 1..Len(cs) |-> "pending"]
    /\ tokens = [i \in 1..Len(cs) |-> 0]
    /\ cause = [i \in 1..Len(cs) |-> "running"]
    /\ hist = [i \in 1..Len(cs) |-> << >>]
    /\ delays60 = [i \in 1..Len(cs) |-> 0]
    /\ delays1 = [i \in 1..Len(cs) |-> 0]
    /\ content = [i \in 1..Len(cs) |-> "none"]
    /\ invocations = [i \in 1..Len(cs) |-> 0]
    /\ sent = [i \in 1..Len(cs) |-> 0]
    /\ requests = [i \in 1..Len(cs) |-> 0]
    /\ successful_results = << >>
    /\ total_tokens = 0
    /\ filtered_count = 0
    /\ error_count = 0

\* a batch of MaxCalls records, some without transcript, any limit up to
\* MaxConcurrent
Init ==
    /\ \E cs \in [1..MaxCalls -> BOOLEAN], n \in 1..MaxConcurrent :
            Start(cs, n, {})
    /\ FnIdle

\* two records with transcripts behind a gate of one permit, either admitted
\* first; the history of the first is recorded
InitTraced == Start(<<TRUE, TRUE>>, 1, {1}) /\ FnIdle

\* ----------------------------------------------------------- actions
\* gather schedules the first step of every task before run_analysis
\* suspends, and the event loop runs ready callbacks first in, first out: the
\* tasks take their first step in submission order, before any timer or
\* response is handled.
AllStarted == \A j \in Eligible : pc[j] # "start"

\* async with semaphore: first run of the task, Semaphore.acquire()
Enter(i) ==
    /\ orch = "gather"
    /\ pc[i] = "start"
    /\ \A j \in Eligible : j < i => pc[j] # "start"
    /\ IF locked(sem, waiters)
       THEN /\ waiters' = Append(waiters, i)
            /\ pc' = [pc EXCEPT ![i] = "gate"]
            /\ sem' = sem
       ELSE /\ sem' = sem - 1
            /\ pc' = [pc EXCEPT ![i] = "warm"]
            /\ waiters' = waiters
    /\ UNCHANGED <<orch, json_attempt, attempt, result, tokens, histVars>>
    /\ UNCHANGED <<statVars, inputVars>>

\* the head of the wait queue is woken once a permit is free
Admit(i) ==
    /\ orch = "gather" /\ AllStarted
    /\ pc[i] = "gate"
    /\ waiters # << >> /\ Head(waiters) = i
    /\ sem > 0
    /\ sem' = sem - 1
    /\ waiters' = Tail(waiters)
    /\ pc' = [pc EXCEPT ![i] = "warm"]
    /\ UNCHANGED <<orch, json_attempt, attempt, result, tokens, histVars>>
    /\ UNCHANGED <<statVars, inputVars>>

\* variant: the task ends without giving its permit back
FinishKeepsPermit(i, r, t, why) ==
    /\ pc' = [pc EXCEPT ![i] = "done"]
    /\ result' = [result EXCEPT ![i] = r]
    /\ tokens' = [tokens EXCEPT ![i] = t]
    /\ cause' = [cause EXCEPT ![i] = Trace(i, @, why)]
    /\ json_attempt' = [json_attempt EXCEPT ![i] = 0]
    /\ attempt' = [attempt EXCEPT ![i] = 0]
    /\ sem' = sem

\* The task ends (return or escaping exception): its frame and loop variables
\* are gone, __aexit__ releases the permit and gather records the outcome.
Finish(i, r, t, why) ==
    /\ pc' = [pc EXCEPT ![i] = "done"]
    /\ result' = [result EXCEPT ![i] = r]
    /\ tokens' = [tokens EXCEPT ![i] = t]
    /\ cause' = [cause EXCEPT ![i] = Trace(i, @, why)]
    /\ json_attempt' = [json_attempt EXCEPT ![i] = 0]
    /\ attempt' = [attempt EXCEPT ![i] = 0]
    /\ sem' = sem + 1

\* client.evaluate_call_async(prompt, session) is called: attempt 0 and its
\* request
Invoke(i) ==
    /\ attempt' = [attempt EXCEPT ![i] = 0]
    /\ hist' = [hist EXCEPT ![i] = << >>]
    /\ delays60' = [delays60 EXCEPT ![i] = 0]
    /\ content' = [content EXCEPT ![i] = "none"]
    /\ invocations' = [invocations EXCEPT ![i] = Trace(i, @, @ + 1)]
    /\ requests' = [requests EXCEPT ![i] = Trace(i, @, @ + 1)]
    /\ sent' = [sent EXCEPT ![i] = Trace(i, 0, 1)]

\* a further request of the invocation goes out (session.post)
Send(i) ==
    /\ requests' = [requests EXCEPT ![i] = Trace(i, @, @ + 1)]
    /\ sent' = [sent EXCEPT ![i] = Trace(i, @, @ + 1)]

\* after sleep(0.1): build the prompt, create the client, enter the JSON loop
\* and send the first request of the first invocation
BuildPrompt(i) ==
    /\ orch = "gather" /\ AllStarted
    /\ pc[i] = "warm"
    /\ \E ok \in BOOLEAN :
         IF ok
         THEN /\ pc' = [pc EXCEPT ![i] = "request"]
              /\ json_attempt' = [json_attempt EXCEPT ![i] = 0]
              /\ Invoke(i)
              /\ UNCHANGED <<sem, result, tokens, cause>>
         ELSE \* formation_of_transcription / prompt_template.format raises
              /\ Finish(i, "exc", 0, "prompt_error")
              /\ UNCHANGED <<hist, delays60, content, invocations, sent, requests>>
    /\ UNCHANGED <<orch, waiters, delays1>>
    /\ UNCHANGED <<statVars, inputVars>>

\* evaluate_call_async is left (return or raise): its frame, with the loop
\* variable, is gone
Leave(i) == attempt' = [attempt EXCEPT ![i] = 0]

\* variant: an exception of the try block is retried by the JSON loop while
\* inner attempts remain
RaisedRetries(i, why) ==
    /\ cause' = [cause EXCEPT ![i] = Trace(i, @, why)]
    /\ delays1' = [delays1 EXCEPT ![i] = Trace(i, @, @ + 1)]
    /\ Leave(i)
    /\ IF json_retry_allowed(json_attempt[i])
       THEN pc' = [pc EXCEPT ![i] = "jsonsleep"] /\ json_attempt' = json_attempt
       ELSE pc' = [pc EXCEPT ![i] = "errsleep"]
            /\ json_attempt' = [json_attempt EXCEPT ![i] = 0]
    /\ UNCHANGED <<sem, result, tokens, delays60, sent, requests>>

\* except Exception: log, then await asyncio.sleep(1) before return None
Raised(i, why) ==
    /\ pc' = [pc EXCEPT ![i] = "errsleep"]
    /\ cause' = [cause EXCEPT ![i] = Trace(i, @, why)]
    /\ delays1' = [delays1 EXCEPT ![i] = Trace(i, @, @ + 1)]
    /\ Leave(i)
    /\ json_attempt' = [json_attempt EXCEPT ![i] = 0]   \* the loop is left
    /\ UNCHANGED <<sem, result, tokens, delays60, sent, requests>>

\* evaluate_call_async returned a response with content c and t tokens: the
\* rest of the try block of analyze_single_call and its handlers
Returned(i, c, t) ==
    CASE Handler(c) = "report" ->
           /\ Finish(i, "report", t, "report")
           /\ UNCHANGED <<delays1, delays60, sent, requests>>
      [] Handler(c) = "return_none" ->
           /\ Finish(i, "none", 0, "nonsales")
           /\ UNCHANGED <<delays1, delays60, sent, requests>>
      [] Handler(c) = "except_json" ->
           IF json_retry_allowed(json_attempt[i])
           THEN /\ pc' = [pc EXCEPT ![i] = "jsonsleep"]
                /\ delays1' = [delays1 EXCEPT ![i] = Trace(i, @, @ + 1)]
                /\ Leave(i)
                /\ UNCHANGED <<sem, result, tokens, cause, delays60,
                               json_attempt, sent, requests>>
           ELSE /\ Finish(i, "none", 0, "json_exhausted")
                /\ UNCHANGED <<delays1, delays60, sent, requests>>
      [] Handler(c) = "except_exception" ->
           Raised(i, "exception")

\* session.post completes (or fails) and the code runs to its next await
Respond(i) ==
    /\ orch = "gather" /\ AllStarted
    /\ pc[i] = "request"
    /\ \E x \in Exchanges, c \in Contents, t \in 1..MaxTokens :
         /\ (x # "ok200" => c = "sales")
         /\ (~(x = "ok200" /\ c = "sales") => t = 1)
         /\ hist' = [hist EXCEPT ![i] = Trace(i, @, Append(@, x))]
         /\ content' = [content EXCEPT ![i] =
                           Trace(i, @, IF Branch(x) = "return" THEN c ELSE @)]
         /\ CASE Branch(x) = "return" ->
                   Returned(i, c, t)
              [] Branch(x) = "raise_value_error" ->
                   Raised(i, "empty_response")
              [] Branch(x) = "retry60" ->
                   IF retry_allowed(attempt[i])
                   THEN /\ pc' = [pc EXCEPT ![i] = "backoff60"]
                        /\ delays60' = [delays60 EXCEPT ![i] = Trace(i, @, @ + 1)]
                        /\ UNCHANGED <<sem, result, tokens, cause, delays1,
                                       json_attempt, attempt, sent, requests>>
                   ELSE Raised(i, "transport_exhausted")
              [] Branch(x) = "fallthrough" ->
                   IF loop_continues(attempt[i])
                   THEN /\ attempt' = [attempt EXCEPT ![i] = @ + 1]
                        /\ Send(i)
                        /\ UNCHANGED <<pc, sem, result, tokens, cause, delays1,
                                       delays60, json_attempt>>
                   ELSE Raised(i, "loop_exhausted")
    /\ UNCHANGED <<orch, waiters, invocations>>
    /\ UNCHANGED <<statVars, inputVars>>

\* asyncio.sleep(60) is over: continue with the next attempt
Backoff60Done(i) ==
    /\ orch = "gather" /\ AllStarted
    /\ pc[i] = "backoff60"
    /\ attempt' = [attempt EXCEPT ![i] = @ + 1]
    /\ Send(i)
    /\ pc' = [pc EXCEPT ![i] = "request"]
    /\ UNCHANGED <<orch, sem, waiters, json_attempt, result, tokens, cause,
                   hist, delays60, delays1, content, invocations>>
    /\ UNCHANGED <<statVars, inputVars>>

\* asyncio.sleep(1) of the JSON handler is over: continue, a new invocation of
\* evaluate_call_async
JsonSleepDone(i) ==
    /\ orch = "gather" /\ AllStarted
    /\ pc[i] = "jsonsleep"
    /\ json_attempt' = [json_attempt EXCEPT ![i] = @ + 1]
    /\ Invoke(i)
    /\ pc' = [pc EXCEPT ![i] = "request"]
    /\ UNCHANGED <<orch, sem, waiters, result, tokens, cause, delays1>>
    /\ UNCHANGED <<statVars, inputVars>>

\* asyncio.sleep(1) of the generic handler is over: return None
ErrSleepDone(i) ==
    /\ orch = "gather" /\ AllStarted
    /\ pc[i] = "errsleep"
    /\ Finish(i, "none", 0, cause[i])
    /\ UNCHANGED <<orch, waiters, hist, delays60, delays1, content, invocations,
                   sent, requests>>
    /\ UNCHANGED <<statVars, inputVars>>

\* gather returns; the statistics loop and the return run without suspension
Gather ==
    /\ orch = "gather"
    /\ IF return_exceptions
       THEN /\ AllSettled
            /\ orch' = "done"
            /\ successful_results' = Reports(Len(calls))
            /\ total_tokens' = TokenSum(Len(calls))
            /\ filtered_count' = CountIn("filtered")
            /\ error_count' = CountIn("error")
            /\ pc' = pc
       ELSE \* gather re-raises the first exception; asyncio.run cancels the rest
            /\ \E i \in Eligible : result[i] = "exc"
            /\ orch' = "raised"
            /\ pc' = [i \in Records |->
                        IF pc[i] \in {"done", "absent"} THEN pc[i] ELSE "cancelled"]
            /\ UNCHANGED statVars
    /\ UNCHANGED <<sem, waiters, json_attempt, attempt, result, tokens, histVars>>
    /\ UNCHANGED inputVars

Next ==
    \/ \E i \in Eligible : Enter(i) /\ UNCHANGED fnVars
    \/ \E i \in Eligible : Admit(i) /\ UNCHANGED fnVars
    \/ \E i \in Eligible : BuildPrompt(i) /\ UNCHANGED fnVars
    \/ \E i \in Eligible : Respond(i) /\ UNCHANGED fnVars
    \/ \E i \in Eligible : Backoff60Done(i) /\ UNCHANGED fnVars
    \/ \E i \in Eligible : JsonSleepDone(i) /\ UNCHANGED fnVars
    \/ \E i \in Eligible : ErrSleepDone(i) /\ UNCHANGED fnVars
    \/ Gather /\ UNCHANGED fnVars

\* a batch of records under a shared gate
Spec == Init /\ [][Next]_vars

\* one traced record and a sibling
SpecTraced == InitTraced /\ [][Next]_vars

\* ===================================================================
\* Properties
\* ===================================================================
\* tasks between acquiring and releasing the gate
Holding(i) == pc[i] \in {"warm", "request", "backoff60", "jsonsleep", "errsleep"}
Holders == {i \in Eligible : Holding(i)}
\* tasks with a remote call outstanding
Outstanding == {i \in Eligible : pc[i] = "request"}
Settled(i) == pc[i] = "done" /\ result[i] \in {"report", "none", "exc"}
InReports(i) == \E k \in 1..Len(successful_results) : successful_results[k] = i

\* C1: with limit N, at most N tasks are ever between acquiring and
\* releasing the gate (remote calls, 60-unit and 1-unit backoffs included),
\* hence at most N remote calls are outstanding, whatever the batch size.
C1_GateBound ==
    /\ Cardinality(Holders) <= max_concurrent
    /\ Cardinality(Outstanding) <= max_concurrent
    /\ sem >= 0

\* the gate is full, one holder sits in a 60-unit backoff, another has a call
\* outstanding, and a third record waits at the gate
C1_Witness ==
    /\ max_concurrent = 2
    /\ Cardinality(Holders) = 2
    /\ \E i, j, k \in Eligible :
         pc[i] = "backoff60" /\ pc[j] = "request" /\ pc[k] = "gate"

TerminalError == {i \in traced :
                    cause[i] \in {"transport_exhausted", "loop_exhausted", "json_exhausted"}
                    /\ pc[i] = "done"}

\* C3 (as claimed): a record that ends in a terminal error (transport budget
\* exhausted, or unparsable after the last JSON attempt) is counted in
\* error_count and not in filtered_count.
C3_TerminalCountedFailed ==
    orch = "done" =>
        /\ error_count >= Cardinality(TerminalError)
        /\ filtered_count <= Cardinality(Eligible \ TerminalError)
                             - Len(successful_results)

\* records the model judged not to be sales calls
NonSales == {i \in traced : cause[i] = "nonsales"}

\* C4: a record whose parsed output has is_sales_call false ends at once with
\* no further request, is absent from the returned reports, and is counted in
\* filtered_count, not in error_count.
C4_NonSalesState ==
    /\ \A i \in NonSales : pc[i] = "done" /\ result[i] = "none"
    /\ \A i \in traced : content[i] = "nonsales" => i \in NonSales
    /\ (orch = "done" =>
          /\ \A i \in NonSales : ~InReports(i)
          /\ filtered_count >= Cardinality(NonSales)
          /\ error_count <= Cardinality(Eligible \ NonSales) - Len(successful_results))
C4_NoFurtherRequest ==
    \A i \in traced : i \in NonSales => requests'[i] = requests[i]
C4_NonSalesFiltered == []C4_NonSalesState /\ [][C4_NoFurtherRequest]_vars

\* the traced record was judged non-sales on its second request; its sibling
\* produced the only report
C4_Witness ==
    /\ orch = "done"
    /\ NonSales = {1}
    /\ hist[1] = <<"s5xx", "ok200">> /\ requests[1] = 2
    /\ filtered_count = 1 /\ error_count = 0 /\ successful_results = <<2>>

\* C5: the statistics are computed, and the list returned, only after every
\* submitted task has settled.
C5_StatsAfterSettled ==
    (\/ orch = "done"
     \/ successful_results # << >>
     \/ total_tokens > 0
     \/ filtered_count > 0
     \/ error_count > 0)
    => \A i \in Eligible : Settled(i)

\* the batch returned with a report, a filtered record and a failed one
C5_Witness ==
    /\ orch = "done"
    /\ Len(successful_results) = 1 /\ total_tokens = MaxTokens
    /\ filtered_count = 1 /\ error_count = 1

\* exchanges the controller answers with a 60-unit delay and a new attempt
Retryable == {"s429", "s5xx", "s4xx", "neterr"}
\* 60-unit delays owed for the first n exchanges of h (the last attempt of the
\* budget is followed by none)
DelaysFor(h, n) ==
    Cardinality({k \in 1..n : k < max_retries /\ h[k] \in Retryable})

\* C6: an invocation that sees 429 on attempts 1 and 2 and a non-empty 200 on
\* attempt 3 returns that response after exactly 3 requests and exactly two
\* 60-unit delays.
C6_RetryScenario ==
    \A i \in traced :
      LET h == hist[i] IN
        /\ (h = <<"s429">>) =>
              /\ delays60[i] = 1
              /\ \/ pc[i] = "backoff60" /\ sent[i] = 1
                 \/ pc[i] = "request" /\ sent[i] = 2
        /\ (h = <<"s429", "s429">>) =>
              /\ delays60[i] = 2
              /\ \/ pc[i] = "backoff60" /\ sent[i] = 2
                 \/ pc[i] = "request" /\ sent[i] = 3
        /\ (h = <<"s429", "s429", "ok200">>) =>
              /\ sent[i] = 3
              /\ delays60[i] = 2
              /\ content[i] \in Contents
              /\ cause[i] \notin {"transport_exhausted", "loop_exhausted",
                                  "empty_response"}
              /\ pc[i] \notin {"request", "backoff60"}

\* 429, 429, then a 200 whose content yields the record's report
C6_Witness ==
    /\ hist[1] = <<"s429", "s429", "ok200">>
    /\ invocations[1] = 1
    /\ result[1] = "report" /\ requests[1] = 3 /\ delays60[1] = 2

\* C7: when every attempt of an invocation answers 500 the controller raises
\* after the third request, never sends a fourth, and no further request is
\* sent for the record.
C7_State ==
    \A i \in traced :
      LET h == hist[i] IN
        /\ Len(h) <= max_retries
        /\ sent[i] <= max_retries
        /\ (h \in {<<"s5xx">>, <<"s5xx", "s5xx">>}) =>
              cause[i] = "running" /\ pc[i] \in {"backoff60", "request"}
        /\ (h = <<"s5xx", "s5xx", "s5xx">>) =>
              /\ cause[i] = "transport_exhausted"
              /\ sent[i] = 3
              /\ pc[i] \in {"errsleep", "done"}
              /\ (pc[i] = "done" => result[i] = "none")
C7_Step ==
    \A i \in traced :
      hist[i] = <<"s5xx", "s5xx", "s5xx">> =>
        /\ requests'[i] = requests[i]
        /\ sent'[i] = sent[i]
        /\ invocations'[i] = invocations[i]
C7_Exhaustion == []C7_State /\ [][C7_Step]_vars

\* three 500s in the record's first invocation, and the batch has returned
C7_Witness ==
    /\ hist[1] = <<"s5xx", "s5xx", "s5xx">>
    /\ invocations[1] = 1 /\ requests[1] = 3
    /\ orch = "done"

\* C8: an attempt k < 3 that ends in 429, 5xx, another 4xx or a transport
\* failure is followed by exactly one 60-unit delay and then attempt k+1; no
\* such failure ends the invocation before the third attempt, and the three
\* attempts are one budget shared by all these classes.
C8_State ==
    \A i \in traced :
      LET h == hist[i]
          n == Len(hist[i])
      IN
        /\ delays60[i] = DelaysFor(h, n)
        /\ (n > 0 /\ n < max_retries /\ h[n] \in Retryable) =>
              \/ pc[i] = "backoff60" /\ sent[i] = n
              \/ pc[i] = "request" /\ sent[i] = n + 1
        /\ pc[i] = "backoff60" => n > 0 /\ n < max_retries /\ h[n] \in Retryable
        /\ cause[i] = "transport_exhausted" =>
              n = max_retries /\ h[n] \in Retryable
        /\ (n = max_retries /\ \A k \in 1..n : h[k] \in Retryable) =>
              cause[i] = "transport_exhausted"
C8_Step ==
    \A i \in traced :
      (pc[i] = "backoff60" /\ pc'[i] # "backoff60") =>
        /\ pc'[i] = "request"
        /\ sent'[i] = sent[i] + 1
        /\ attempt'[i] = attempt[i] + 1
        /\ hist'[i] = hist[i]
        /\ delays60'[i] = delays60[i]
C8_SharedBudget == []C8_State /\ [][C8_Step]_vars

\* a client error, a transport failure and a 429 together exhaust the budget
C8_Witness ==
    /\ hist[1] = <<"s4xx", "neterr", "s429">>
    /\ cause[1] = "transport_exhausted"
    /\ delays60[1] = 2 /\ sent[1] = 3

\* C9: a status 200 with an empty or missing message raises at once: no
\* 60-unit delay and no further request in that invocation, whatever is left
\* of the transport budget.
C9_State ==
    \A i \in traced :
      LET h == hist[i]
          n == Len(hist[i])
      IN (n > 0 /\ h[n] = "empty200") =>
            /\ cause[i] = "empty_response"
            /\ pc[i] \in {"errsleep", "done"}
            /\ sent[i] = n
            /\ delays60[i] = DelaysFor(h, n - 1)
C9_Step ==
    \A i \in traced :
      (hist[i] # << >> /\ hist[i][Len(hist[i])] = "empty200") =>
        /\ sent'[i] = sent[i]
        /\ requests'[i] = requests[i]
        /\ delays60'[i] = delays60[i]
C9_EmptyRaisesAtOnce == []C9_State /\ [][C9_Step]_vars

\* the empty 200 came on the first attempt, with two attempts left
C9_Witness ==
    /\ hist[1] = <<"empty200">>
    /\ pc[1] = "errsleep" /\ delays60[1] = 0 /\ sent[1] = 1

\* C10: a response whose content is not JSON makes analyze_single_call wait 1
\* unit and call evaluate_call_async anew, at most 3 invocations per record;
\* after the third parse failure there is no further call and no further
\* delay, and the record yields no report.
C10_State ==
    \A i \in traced :
      /\ invocations[i] <= max_json_retries
      /\ pc[i] = "jsonsleep" => content[i] = "badjson"
      /\ content[i] = "badjson" =>
            IF invocations[i] < max_json_retries
            THEN /\ pc[i] = "jsonsleep"
                 /\ delays1[i] = invocations[i]
                 /\ cause[i] = "running"
            ELSE /\ cause[i] = "json_exhausted"
                 /\ pc[i] = "done" /\ result[i] = "none"
                 /\ delays1[i] = max_json_retries - 1
                 /\ (orch = "done" => ~InReports(i))
C10_Step ==
    \A i \in traced :
      /\ (pc[i] = "jsonsleep" /\ pc'[i] # "jsonsleep") =>
            /\ pc'[i] = "request"
            /\ invocations'[i] = invocations[i] + 1
            /\ requests'[i] = requests[i] + 1
            /\ sent'[i] = 1 /\ attempt'[i] = 0 /\ hist'[i] = << >>
      /\ cause[i] = "json_exhausted" =>
            requests'[i] = requests[i] /\ delays1'[i] = delays1[i]
C10_JsonRetry == []C10_State /\ [][C10_Step]_vars

\* three parse failures, the second after a transport retry; batch returned
C10_Witness ==
    /\ cause[1] = "json_exhausted"
    /\ invocations[1] = 3 /\ requests[1] = 4 /\ delays1[1] = 2
    /\ orch = "done" /\ filtered_count >= 1

\* ===================================================================
\* parse_llm_response (pipelines/call_analysis.py 15-49)
\*
\* A text is a sequence of tokens.  "fence" is a run of three backticks, so
\* the marker of a json block is the fence followed by the word "json"; "x" is any
\* other word; "1" is any scalar literal (number, true, false, null); "q" is
\* the double quote; " " is any whitespace, newline included.  Arrays and
\* objects hold at most one element, so no comma is needed.
Tokens == {"fence", "json", "x", "{", "}", "[", "]", ":", "1", "q", " "}
\* what the model may put inside a string literal
StringTokens == {"fence", "json", "x", "{", "}"}

MaxText == 4      \* longest raw text enumerated token by token
MaxStr == 2       \* longest content of a string literal in a generated object

Fence == <<"fence">>
FenceJson == <<"fence", "json">>

SeqsUpTo(S, n) == UNION {[1..k -> S] : k \in 0..n}
Drop(s, n) == SubSeq(s, n + 1, Len(s))
MinOf(S) == CHOOSE m \in S : \A k \in S : m <= k
MaxOf(S) == CHOOSE m \in S : \A k \in S : m >= k

\* the places where sep starts in s
Occurrences(s, sep) ==
    {i \in 1..(Len(s) - Len(sep) + 1) : SubSeq(s, i, i + Len(sep) - 1) = sep}
\* sep in s
Contains(s, sep) == Occurrences(s, sep) # {}

\* s.split(sep): the pieces between the occurrences of sep, left to right
RECURSIVE split(_, _)
split(s, sep) ==
    IF ~Contains(s, sep) THEN <<s>>
    ELSE LET i == MinOf(Occurrences(s, sep))
         IN  <<SubSeq(s, 1, i - 1)>> \o split(Drop(s, i + Len(sep) - 1), sep)

\* lines 22-25: the inside of the first fenced block, if there is a fence
Unfence(s) ==
    IF Contains(s, FenceJson) THEN split(split(s, FenceJson)[2], Fence)[1]
    ELSE IF Contains(s, Fence) THEN split(split(s, Fence)[2], Fence)[1]
    ELSE s

RECURSIVE lstrip(_)
lstrip(s) == IF s # << >> /\ Head(s) = " " THEN lstrip(Tail(s)) ELSE s
RECURSIVE rstrip(_)
rstrip(s) ==
    IF s # << >> /\ s[Len(s)] = " " THEN rstrip(SubSeq(s, 1, Len(s) - 1)) ELSE s
\* str.strip()
strip(s) == rstrip(lstrip(s))

\* str.find / str.rfind, counting from 1, 0 when absent
find(s, t) == IF \E i \in 1..Len(s) : s[i] = t
              THEN MinOf({i \in 1..Len(s) : s[i] = t}) ELSE 0
rfind(s, t) == IF \E i \in 1..Len(s) : s[i] = t
               THEN MaxOf({i \in 1..Len(s) : s[i] = t}) ELSE 0

\* lines 31-37: cut to the outermost braces when there is such a pair
Braces(s) ==
    LET start == find(s, "{")
        end == rfind(s, "}")
    IN  IF start # 0 /\ end # 0 /\ end > start THEN SubSeq(s, start, end) ELSE s

\* json.loads.  A value that parses is returned in canonical form: its tokens
\* with the whitespace between them removed, so two parsed structures are
\* identical exactly when their canonical forms are equal.
JsonFail == [ok |-> FALSE, val |-> << >>, rest |-> << >>]

\* a string literal: from the opening quote to the next quote
JsonString(t) ==
    IF t = << >> \/ Head(t) # "q" \/ find(Tail(t), "q") = 0 THEN JsonFail
    ELSE LET e == find(Tail(t), "q") + 1
         IN  [ok |-> TRUE, val |-> SubSeq(t, 1, e), rest |-> Drop(t, e)]

RECURSIVE JsonValue(_)
JsonValue(s) ==
    LET t == lstrip(s)
    IN  IF t = << >> THEN JsonFail
        ELSE CASE Head(t) = "1" ->
                    [ok |-> TRUE, val |-> <<"1">>, rest |-> Tail(t)]
               [] Head(t) = "q" -> JsonString(t)
               [] Head(t) = "[" ->
                    LET u == lstrip(Tail(t))
                    IN  IF u # << >> /\ Head(u) = "]"
                        THEN [ok |-> TRUE, val |-> <<"[", "]">>, rest |-> Tail(u)]
                        ELSE LET v == JsonValue(u)
                                 w == lstrip(v.rest)
                             IN  IF v.ok /\ w # << >> /\ Head(w) = "]"
                                 THEN [ok |-> TRUE,
                                       val |-> <<"[">> \o v.val \o <<"]">>,
                                       rest |-> Tail(w)]
                                 ELSE JsonFail
               [] Head(t) = "{" ->
                    LET u == lstrip(Tail(t))
                    IN  IF u # << >> /\ Head(u) = "}"
                        THEN [ok |-> TRUE, val |-> <<"{", "}">>, rest |-> Tail(u)]
                        ELSE LET k == JsonString(u)
                                 c == lstrip(k.rest)
                             IN  IF ~k.ok \/ c = << >> \/ Head(c) # ":" THEN JsonFail
                                 ELSE LET v == JsonValue(Tail(c))
                                          w == lstrip(v.rest)
                                      IN  IF v.ok /\ w # << >> /\ Head(w) = "}"
                                          THEN [ok |-> TRUE,
                                                val |-> <<"{">> \o k.val \o <<":">>
                                                        \o v.val \o <<"}">>,
                                                rest |-> Tail(w)]
                                          ELSE JsonFail
               [] OTHER -> JsonFail

\* json.loads(content): one value, then nothing but whitespace; ok = FALSE
\* stands for JSONDecodeError
loads(s) ==
    LET v == JsonValue(s)
    IN  IF v.ok /\ lstrip(v.rest) = << >> THEN [ok |-> TRUE, val |-> v.val]
        ELSE NoOutcome

\* analysis_data of parse_llm_response(response), or the JSONDecodeError
parse_llm_response(c) == loads(Braces(strip(Unfence(c))))

\* a parsed value is a mapping (dict) exactly when its text opens with a brace
IsMapping(v) == v # << >> /\ Head(v) = "{"

\* ------------------------------------------------------------ inputs
JsonStrings == {<<"q">> \o c \o <<"q">> : c \in SeqsUpTo(StringTokens, MaxStr)}
JsonValues == JsonStrings \cup {<<"1">>, <<"{", "}">>, <<"[", "]">>, <<"[", "1", "]">>}
\* texts of JSON objects
JsonObjects ==
    {<<"{", "}">>} \cup
    {<<"{">> \o k \o <<":">> \o v \o <<"}">> : k \in JsonStrings, v \in JsonValues}
\* J on a line of its own inside a fenced block labelled json
Wrap(J) == FenceJson \o <<" ">> \o J \o <<" ">> \o Fence
RawTexts == SeqsUpTo(Tokens, MaxText) \cup JsonObjects \cup {Wrap(J) : J \in JsonObjects}

\* no batch is running while a function is studied
PipelineIdle == Start(<< >>, 1, {})

InitParse ==
    /\ PipelineIdle
    /\ EntryIdle /\ SyncIdle
    /\ stage = "response"
    /\ raw \in RawTexts
    /\ parsed = NoOutcome
    /\ ResultIdle /\ LabelIdle /\ OperatorIdle

\* the whole of parse_llm_response: it returns analysis_data, or lets the
\* JSONDecodeError of json.loads through
ParseResponse ==
    /\ stage = "response"
    /\ parsed' = parse_llm_response(raw)
    /\ stage' = IF parse_llm_response(raw).ok THEN "returned" ELSE "raised"
    /\ UNCHANGED <<raw, notParse>>

NextParse == ParseResponse

\* parse_llm_response applied to one response content
SpecParse == InitParse /\ [][NextParse]_vars

\* -------------------------------------------------------------------
\* C11: whatever the raw model output, parse_llm_response returns a JSON
\* mapping or raises JSONDecodeError; it never returns a list, a number, a
\* string, a boolean or null.
C11_MappingOrParseError == stage = "returned" => IsMapping(parsed.val)

\* -------------------------------------------------------------------
\* C20: for every text J of a JSON object, parse_llm_response gives the same
\* outcome for J wrapped in a fenced block labelled json and for J itself:
\* the same parsed structure, or a failure both times.
IsObjectText(s) == loads(s).ok /\ IsMapping(loads(s).val)

C20_RoundTrip ==
    (stage \in {"returned", "raised"} /\ IsObjectText(raw))
        => parsed = parse_llm_response(Wrap(raw))

\* ===================================================================
\* Result.from_list, Evaluation.from_list (models/analysis_result.py) and
\* save_call_analysis_to_db (pipelines/save_results_db.py)
\*
\* Python floats are IEEE 754 doubles: 53 significant bits, results rounded to
\* nearest, ties to even.  A positive double is [m, e]: m its 53 significant
\* bits, most significant first, e the exponent of the first of them.
Precision == 53

\* the binary digits of a natural number, most significant first
RECURSIVE Bits(_)
Bits(n) == IF n = 0 THEN << >> ELSE Bits(n \div 2) \o <<n % 2>>

\* the lowest k binary digits of n, most significant first
LowBits(n, k) == [i \in 1..k |-> (n \div 2^(k - i)) % 2]

\* the natural number a bit sequence spells
RECURSIVE BitsValue(_)
BitsValue(bs) ==
    IF bs = << >> THEN 0 ELSE 2 * BitsValue(SubSeq(bs, 1, Len(bs) - 1)) + bs[Len(bs)]

\* the next 8n binary digits of r / b (0 <= r < b), then the remainder left
RECURSIVE FracBits(_, _, _)
FracBits(r, b, n) ==
    IF n = 0 THEN <<r>>
    ELSE LowBits((256 * r) \div b, 8) \o FracBits((256 * r) % b, b, n - 1)

\* bs + 1 on a bit sequence that holds a 0
Successor(bs) ==
    LET z == CHOOSE i \in 1..Len(bs) : bs[i] = 0 /\ \A j \in (i + 1)..Len(bs) : bs[j] = 1
    IN  [i \in 1..Len(bs) |-> IF i < z THEN bs[i] ELSE IF i = z THEN 1 ELSE 0]

\* round the digits sig (first digit 1, exponent e; inexact: digits were lost
\* after sig) to Precision bits, to nearest, ties to even
RoundToDouble(sig, e, inexact) ==
    LET m == SubSeq(sig, 1, Precision)
        half == sig[Precision + 1] = 1
        below == inexact \/ \E i \in (Precision + 2)..Len(sig) : sig[i] = 1
        up == half /\ (below \/ m[Precision] = 1)
    IN  IF ~up THEN [m |-> m, e |-> e]
        ELSE IF \A i \in 1..Precision : m[i] = 1
        THEN [m |-> <<1>> \o [i \in 1..(Precision - 1) |-> 0], e |-> e + 1]
        ELSE [m |-> Successor(m), e |-> e]

\* a / b for integers 0 < a, 0 < b: the double nearest to the quotient
true_div(a, b) ==
    LET whole == Bits(a \div b)
        frac == FracBits(a % b, b, 11)
        digits == whole \o SubSeq(frac, 1, 88)
        first == CHOOSE i \in 1..Len(digits) :
                    digits[i] = 1 /\ \A j \in 1..(i - 1) : digits[j] = 0
    IN  RoundToDouble(SubSeq(digits, first, Len(digits)),
                      Len(whole) - first, frac[89] # 0)

\* x * 100 for a positive double x: long multiplication on the three limbs
\* of 13, 20 and 20 bits of its significand
times100(x) ==
    LET lo == 100 * BitsValue(SubSeq(x.m, 34, 53))
        mid == 100 * BitsValue(SubSeq(x.m, 14, 33)) + lo \div 2^20
        hi == 100 * BitsValue(SubSeq(x.m, 1, 13)) + mid \div 2^20
        product == Bits(hi) \o LowBits(mid % 2^20, 20) \o LowBits(lo % 2^20, 20)
    IN  RoundToDouble(product, x.e + Len(product) - Precision, FALSE)

\* int(x) for a positive double below 2^31: the digits before the point
int(x) == IF x.e < 0 THEN 0 ELSE BitsValue(SubSeq(x.m, 1, x.e + 1))

\* int((total_score / max_possible_score) * 100) for max_possible_score > 0;
\* a negative quotient is the mirror image of the positive one
percent(total, max) ==
    IF total = 0 THEN 0
    ELSE IF total > 0 THEN int(times100(true_div(total, max)))
    ELSE 0 - int(times100(true_div(0 - total, max)))

\* ------------------------------------------------------------ inputs
MaxEvals == 2     \* most evaluation items in one response
MaxScore == 1     \* small scores run from -1 to MaxScore
\* two larger values, for quotients that are not small fractions
LargeScores == {29, 50}
ScoreValues == (0 - 1)..MaxScore \cup LargeScores
\* item.get(key): << >> is None (key absent or null), <<v>> the integer v
Optional(S) == {<< >>} \cup {<<v>> : v \in S}
Items == [score_given : Optional(ScoreValues), max_score : Optional(ScoreValues)]

\* lines 42-62 of Evaluation.from_list: the scores of the Evaluation built
\* from one item
Clamp(item) ==
    IF item.score_given # << >> /\ item.max_score # << >>
    THEN IF item.score_given[1] > item.max_score[1]
         THEN [item EXCEPT !.score_given = item.max_score]
         ELSE IF item.score_given[1] < 0
         THEN [item EXCEPT !.score_given = <<0>>]
         ELSE item
    ELSE item

\* Evaluation.from_list(items)
Evaluations(items) == [i \in 1..Len(items) |-> Clamp(items[i])]

\* sum(v for v in values if v is not None)
RECURSIVE SumPresent(_)
SumPresent(values) ==
    IF values = << >> THEN 0
    ELSE (IF Head(values) = << >> THEN 0 ELSE Head(values)[1]) + SumPresent(Tail(values))

\* Result.from_list(data), lines 216-230
Result(items) ==
    LET evaluations == Evaluations(items)
        total_score == SumPresent([i \in 1..Len(items) |-> evaluations[i].score_given])
        max_possible_score ==
            SumPresent([i \in 1..Len(items) |-> evaluations[i].max_score])
    IN  [evaluations |-> evaluations,
         total_score |-> total_score,
         max_possible_score |-> max_possible_score,
         performance_percentage |->
            IF max_possible_score > 0 THEN percent(total_score, max_possible_score)
            ELSE 0]

\* variant: an evaluation is persisted as soon as its score is present
PersistableWithScore(e) == e.score_given # << >>
\* save_results_db.py 46: the evaluation is not skipped
Persistable(e) == ~(e.score_given = << >> \/ e.max_score = << >>)

\* save_results_db.py 45-64: the EvaluationDTO list, from evaluation i on; "of"
\* records which evaluation a row was made from
RECURSIVE EvaluationRows(_, _)
EvaluationRows(evaluations, i) ==
    IF i > Len(evaluations) THEN << >>
    ELSE (IF Persistable(evaluations[i])
          THEN <<[of |-> i, score |-> evaluations[i].score_given,
                  max_score |-> evaluations[i].max_score]>>
          ELSE << >>) \o EvaluationRows(evaluations, i + 1)

InitResult ==
    /\ PipelineIdle
    /\ EntryIdle /\ SyncIdle
    /\ ParseIdle /\ LabelIdle /\ OperatorIdle
    /\ stage = "analysis_data"
    /\ data \in SeqsUpTo(Items, MaxEvals)
    /\ built = NoResult
    /\ rows = << >>

\* analysis_result = Result.from_list(analysis_data)
BuildResult ==
    /\ stage = "analysis_data"
    /\ built' = Result(data)
    /\ stage' = "result"
    /\ UNCHANGED <<data, rows, notResult>>

\* save_call_analysis_to_db(postgres_client, report, department_id): one row
\* is inserted per EvaluationDTO (clients/postgres.py 131-139)
SaveToDb ==
    /\ stage = "result"
    /\ rows' = EvaluationRows(built.evaluations, 1)
    /\ stage' = "saved"
    /\ UNCHANGED <<data, built, notResult>>

NextResult == BuildResult \/ SaveToDb

\* one response's evaluations, built into a Result and persisted
SpecResult == InitResult /\ [][NextResult]_vars

Built == stage \in {"result", "saved"}
BothPresent(e) == e.score_given # << >> /\ e.max_score # << >>

\* -------------------------------------------------------------------
\* C12: every evaluation of a built Result whose score_given and max_score
\* are both present satisfies 0 <= score_given <= max_score, whatever
\* integers the model sent.
C12_ScoreWithinBounds ==
    Built => \A i \in 1..Len(built.evaluations) :
                BothPresent(built.evaluations[i]) =>
                    /\ 0 <= built.evaluations[i].score_given[1]
                    /\ built.evaluations[i].score_given[1]
                         <= built.evaluations[i].max_score[1]

\* -------------------------------------------------------------------
\* C13: performance_percentage is floor(100 * total_score /
\* max_possible_score) when max_possible_score > 0, and 0 otherwise.
C13_PercentageIsFloor ==
    Built => built.performance_percentage =
                IF built.max_possible_score > 0
                THEN (100 * built.total_score) \div built.max_possible_score
                ELSE 0

\* -------------------------------------------------------------------
\* C14: total_score and max_possible_score are sums over the same
\* evaluations, those whose score_given is present: such an evaluation adds
\* its score to total_score and its max_score to max_possible_score, and an
\* evaluation without score_given adds to neither.
Scored(evs) == {i \in 1..Len(evs) : evs[i].score_given # << >>}
RECURSIVE SumOver(_, _)
SumOver(f, S) ==
    IF S = {} THEN 0
    ELSE LET i == CHOOSE j \in S : TRUE IN f[i] + SumOver(f, S \ {i})

C14_SameEvaluationsSummed ==
    Built =>
        LET evs == built.evaluations
            score == [i \in 1..Len(evs) |->
                        IF evs[i].score_given = << >> THEN 0 ELSE evs[i].score_given[1]]
            max == [i \in 1..Len(evs) |->
                        IF evs[i].max_score = << >> THEN 0 ELSE evs[i].max_score[1]]
        IN  /\ built.total_score = SumOver(score, Scored(evs))
            /\ built.max_possible_score = SumOver(max, Scored(evs))

\* -------------------------------------------------------------------
\* C19: an evaluation whose score_given or max_score is absent stays in the
\* Result's evaluations as the model sent it but gives no row when the
\* report is saved; an evaluation with both present gives exactly one row,
\* with its score and its max_score.
RowsOf(i) == {k \in 1..Len(rows) : rows[k].of = i}

C19_AbsentKeptNotPersisted ==
    stage = "saved" =>
        /\ Len(built.evaluations) = Len(data)
        /\ \A i \in 1..Len(data) :
              IF BothPresent(built.evaluations[i])
              THEN /\ Cardinality(RowsOf(i)) = 1
                   /\ \A k \in RowsOf(i) :
                         /\ rows[k].score = built.evaluations[i].score_given
                         /\ rows[k].max_score = built.evaluations[i].max_score
              ELSE /\ built.evaluations[i] = data[i]
                   /\ RowsOf(i) = {}
        /\ \A k \in 1..Len(rows) : rows[k].of \in 1..Len(data)

\* saved: one evaluation lacks its max_score and is kept without a row, one
\* has both values and has its row
C19_Witness ==
    /\ stage = "saved"
    /\ \E i, j \in 1..Len(built.evaluations) :
          /\ built.evaluations[i].score_given # << >>
          /\ built.evaluations[i].max_score = << >>
          /\ RowsOf(i) = {}
          /\ BothPresent(built.evaluations[j])
          /\ RowsOf(j) # {}

\* -------------------------------------------------------------------
\* C28: every built Result satisfies 0 <= total_score <= max_possible_score
\* and 0 <= performance_percentage <= 100, whatever integer or absent scores
\* the model sent.
C28_TotalsWithinBounds ==
    Built =>
        /\ 0 <= built.total_score
        /\ built.total_score <= built.max_possible_score
        /\ 0 <= built.performance_percentage
        /\ built.performance_percentage <= 100

\* ===================================================================
\* utils/criterion_normalizer.py, and the labels of Evaluation.from_list
\*
\* A label is a sequence of characters: "a" and "b" are lower-case letters,
\* "A" is the upper-case "a", " " is whitespace, "." is a special character
\* (neither \w nor \s).
Chars == {"a", "A", " ", "."}
MaxLabel == 2       \* longest label of the model enumerated character by character
MaxCriteria == 2    \* most entries in the taxonomy
similarity_threshold == 85          \* 0.85, in hundredths

Repeat(c, n) == [i \in 1..n |-> c]
\* labels long enough for a similarity of exactly 0.7, and one with a run of
\* whitespace inside
LongLabels == {Repeat("a", 7) \o Repeat("b", 3), Repeat("b", 3) \o Repeat("a", 7),
               <<"a", " ", " ", "A">>}
LlmLabels == SeqsUpTo(Chars, MaxLabel) \cup LongLabels
Categories == {<<"a">>, <<"A">>}
Indicators == {<<"a">>, <<"A">>, Repeat("a", 3), Repeat("b", 3) \o Repeat("a", 7)}

\* re.sub(r'\s+', ' ', t): every run of whitespace becomes one space
RECURSIVE Collapse(_)
Collapse(t) ==
    IF Len(t) < 2 THEN t
    ELSE IF t[1] = " " /\ t[2] = " " THEN Collapse(Tail(t))
    ELSE <<t[1]>> \o Collapse(Tail(t))

\* the fallback label: re.sub(r'\s+', ' ', str(t).strip())
Clean(t) == Collapse(strip(t))

IsWordOrSpace(c) == c # "."
lower(t) == [i \in 1..Len(t) |-> IF t[i] = "A" THEN "a" ELSE t[i]]

\* normalize_text, lines 27-42
normalize_text(t) ==
    IF t = << >> THEN << >>
    ELSE strip(lower(Collapse(SelectSeq(strip(t), IsWordOrSpace))))

\* the key of a (category, criterion) pair
Key(pair) == <<normalize_text(pair[1]), normalize_text(pair[2])>>

\* mapping[key] = value on a dict kept as the sequence of its items, in
\* insertion order
Put(mapping, key, value) ==
    IF \E p \in 1..Len(mapping) : mapping[p].key = key
    THEN [p \in 1..Len(mapping) |->
            IF mapping[p].key = key THEN [key |-> key, value |-> value] ELSE mapping[p]]
    ELSE Append(mapping, [key |-> key, value |-> value])

\* build_criterion_mapping(criteria)
RECURSIVE build_criterion_mapping(_)
build_criterion_mapping(cs) ==
    IF cs = << >> THEN << >>
    ELSE Put(build_criterion_mapping(SubSeq(cs, 1, Len(cs) - 1)),
             Key(cs[Len(cs)]), cs[Len(cs)])

HasKey(mapping, key) == \E p \in 1..Len(mapping) : mapping[p].key = key
Lookup(mapping, key) == mapping[CHOOSE p \in 1..Len(mapping) : mapping[p].key = key].value
Values(mapping) == {mapping[p].value : p \in 1..Len(mapping)}

\* SequenceMatcher(None, a, b): the total size of the matching blocks.  The
\* longest common block is taken, the earliest in a and then in b among the
\* longest, and the search goes on to its left and to its right.  (No
\* element is junk: autojunk needs 200 elements.)
RECURSIVE Matches(_, _)
Matches(a, b) ==
    LET blocks == {t \in (1..Len(a)) \X (1..Len(b)) \X (1..Len(a)) :
                      /\ t[1] + t[3] - 1 <= Len(a)
                      /\ t[2] + t[3] - 1 <= Len(b)
                      /\ SubSeq(a, t[1], t[1] + t[3] - 1) = SubSeq(b, t[2], t[2] + t[3] - 1)}
    IN  IF blocks = {} THEN 0
        ELSE LET m == CHOOSE t \in blocks : \A u \in blocks :
                        \/ t[3] > u[3]
                        \/ t[3] = u[3] /\ t[1] < u[1]
                        \/ t[3] = u[3] /\ t[1] = u[1] /\ t[2] <= u[2]
             IN  m[3] + Matches(SubSeq(a, 1, m[1] - 1), SubSeq(b, 1, m[2] - 1))
                      + Matches(SubSeq(a, m[1] + m[3], Len(a)),
                                SubSeq(b, m[2] + m[3], Len(b)))

\* SequenceMatcher(None, a, b).ratio(), as the fraction num / den
ratio(a, b) ==
    IF Len(a) + Len(b) = 0 THEN [num |-> 1, den |-> 1]
    ELSE [num |-> 2 * Matches(a, b), den |-> Len(a) + Len(b)]

\* avg_similarity = (cat_similarity + crit_similarity) / 2, as a fraction
avg_similarity(key, other) ==
    LET cat == ratio(key[1], other[1])
        crit == ratio(key[2], other[2])
    IN  [num |-> cat.num * crit.den + crit.num * cat.den, den |-> 2 * cat.den * crit.den]

\* variant: a candidate as good as the best so far replaces it
GreaterOrEqual(x, y) == x.num * y.den >= y.num * x.den

\* x > y on fractions
Greater(x, y) == x.num * y.den > y.num * x.den

\* variant: the threshold itself is not enough
meets_threshold_strict(x) == 100 * x.num > similarity_threshold * x.den
\* best_similarity >= similarity_threshold
meets_threshold(x) == 100 * x.num >= similarity_threshold * x.den

\* lines 101-114: the loop over mapping.items() from item p on
\* (means are compared as exact fractions; in floating point two equal means
\* reached through different fractions may differ in the last bit, which can
\* change which of two tied entries is kept, not whether the threshold is met)
RECURSIVE BestMatch(_, _, _, _)
BestMatch(mapping, p, key, best) ==
    IF p > Len(mapping) THEN best
    ELSE BestMatch(mapping, p + 1, key,
                   IF Greater(avg_similarity(key, mapping[p].key), best.similarity)
                   THEN [similarity |-> avg_similarity(key, mapping[p].key), match |-> p]
                   ELSE best)

\* find_best_match(llm_category, llm_criterion, mapping)
find_best_match(pair, mapping) ==
    IF HasKey(mapping, Key(pair)) THEN Lookup(mapping, Key(pair))
    ELSE LET best == BestMatch(mapping, 1, Key(pair),
                               [similarity |-> [num |-> 0, den |-> 1], match |-> 0])
         IN  IF meets_threshold(best.similarity) THEN mapping[best.match].value
             ELSE <<Clean(pair[1]), Clean(pair[2])>>

\* normalize_category_and_criterion: the match is a pair, never falsy
normalize_category_and_criterion(pair, mapping) == find_best_match(pair, mapping)

\* Evaluation.from_list, lines 28-40: the labels of one evaluation; an empty
\* mapping stands for None as well
EvaluationLabels(pair, criterion_mapping) ==
    IF criterion_mapping # << >>
    THEN normalize_category_and_criterion(pair, criterion_mapping)
    ELSE <<Clean(pair[1]), Clean(pair[2])>>

\* the criterion_mapping analyze_single_call hands to Result.from_list: the
\* call passes analysis_data alone, so the parameter keeps its default, None
PipelineMapping(cs) == << >>

InitLabel ==
    /\ PipelineIdle
    /\ EntryIdle /\ SyncIdle
    /\ ParseIdle /\ ResultIdle /\ OperatorIdle
    /\ stage = "label"
    /\ criteria \in SeqsUpTo(Categories \X Indicators, MaxCriteria)
    /\ llm \in Categories \X LlmLabels
    /\ labels = << << >>, << >> >>

\* the Label Normalizer applied to the model's pair, with the mapping built
\* from the taxonomy
NormalizeLabel ==
    /\ stage = "label"
    /\ labels' = normalize_category_and_criterion(llm, build_criterion_mapping(criteria))
    /\ stage' = "normalized"
    /\ UNCHANGED <<criteria, llm, notLabel>>

\* analyze_single_call builds the report: Result.from_list(analysis_data)
ReportLabel ==
    /\ stage = "label"
    /\ labels' = EvaluationLabels(llm, PipelineMapping(criteria))
    /\ stage' = "reported"
    /\ UNCHANGED <<criteria, llm, notLabel>>

NextLabel == NormalizeLabel \/ ReportLabel

\* one model label against one taxonomy
SpecLabel == InitLabel /\ [][NextLabel]_vars

\* -------------------------------------------------------------------
\* C15: normalizing an entry of the taxonomy with the mapping built from
\* that taxonomy returns the entry itself.
C15_CanonicalUnchanged ==
    (stage = "normalized" /\ \E p \in 1..Len(criteria) : criteria[p] = llm)
        => labels = llm

\* -------------------------------------------------------------------
\* C16: when the exact lookup misses, the result is a canonical pair of the
\* mapping exactly if the best mean similarity over the entries is at least
\* 0.85, the bound included; otherwise it is the input pair with its
\* whitespace trimmed and collapsed.
Missed == ~HasKey(build_criterion_mapping(criteria), Key(llm))
Reaches85(p) ==
    LET s == avg_similarity(Key(llm), build_criterion_mapping(criteria)[p].key)
    IN  100 * s.num >= 85 * s.den
Exactly85(p) ==
    LET s == avg_similarity(Key(llm), build_criterion_mapping(criteria)[p].key)
    IN  100 * s.num = 85 * s.den

C17_ReportCanonical ==
    (stage = "reported" /\ ~Missed)
        => labels = Lookup(build_criterion_mapping(criteria), Key(llm))

\* ===================================================================
\* pipelines/get_calls.py filter_operators_from_db, utils/name_normalizer.py
\*
\* A name is None, written << >>, or a string, written <<words>> with words
\* the sequence of its whitespace-separated words ("" is << << >> >>).  A
\* normalized name is the sequence of its clean words, "" being << >>.
\* Words stand for the Cyrillic ones of the data: "operator" for a word of
\* the list unwanted_words, "x" for a one-letter word, "Ivanov," for
\* "ivanov" with a capital and a trailing comma, "..." for a word without
\* any word character.
MaxRecords == 3     \* most call records handed to the filter
MaxOperators == 2   \* most rows in the operators table

None == << >>
Str(words) == <<words>>

unwanted_words == {"operator"}
OneLetter == {"x"}

\* re.sub(r'[^\w]', '', word.lower())
word_clean(word) ==
    CASE word = "Ivanov," -> "ivanov"
      [] word = "..." -> ""
      [] OTHER -> word

WordKept(word) ==
    /\ word_clean(word) # ""
    /\ word_clean(word) \notin unwanted_words
    /\ word_clean(word) \notin OneLetter

\* normalize_name(name)
normalize_name(name) ==
    IF name = None \/ name = Str(<< >>) THEN << >>
    ELSE LET filtered_words == [i \in 1..Len(SelectSeq(name[1], WordKept)) |->
                                  word_clean(SelectSeq(name[1], WordKept)[i])]
         IN  SubSeq(filtered_words, 1, MinOf({2, Len(filtered_words)}))

\* the names the API delivers and the full names of the operators table
ApiNames == {None, Str(<< >>), Str(<<"Ivanov,", "ivan">>),
             Str(<<"operator", "ivanov", "x", "ivan", "petrov">>),
             Str(<<"petrov">>), Str(<<"x", "operator", "...">>), Str(<<"sidorov">>)}
DbNames == {Str(<<"ivanov", "ivan">>), Str(<<"Ivanov,", "ivan", "petrov">>),
            Str(<<"petrov">>), Str(<<"operator">>)}

\* SELECT id, full_name FROM operators: row i has id i
Rows(names) == [i \in 1..Len(names) |-> [id |-> i, full_name |-> names[i]]]

\* build_name_cache: the dict as the sequence of its items; a row whose name
\* normalizes to "" is not cached, a later row replaces an earlier one of
\* the same key.  (A failing query leaves the cache empty, as an empty table
\* does.)
RECURSIVE build_name_cache(_)
build_name_cache(ops) ==
    IF ops = << >> THEN << >>
    ELSE LET cache == build_name_cache(SubSeq(ops, 1, Len(ops) - 1))
             op == ops[Len(ops)]
         IN  IF normalize_name(op.full_name) # << >>
             THEN Put(cache, normalize_name(op.full_name), op)
             ELSE cache

\* find_operator_with_cache: cache.get(normalize_name(api_name))
find_operator_with_cache(cache, api_name) ==
    IF HasKey(cache, normalize_name(api_name))
    THEN <<Lookup(cache, normalize_name(api_name))>>
    ELSE None

\* a CallRecord as the filter sees it: given is the name the API delivered,
\* the other two fields are those of record.call
NewRecord(name) == [given |-> name, operatorUserId |-> 0, operatorUserFullName |-> name]

Indices(recs, cache) ==
    SelectSeq([i \in 1..Len(recs) |-> i],
              LAMBDA i : find_operator_with_cache(cache, recs[i].operatorUserFullName) # None)

\* sorted(not_found_operators) compares the elements of the set: None and a
\* string do not compare
SortRaises(not_found_operators) ==
    None \in not_found_operators /\ not_found_operators # {None}

InitOperators ==
    /\ PipelineIdle
    /\ EntryIdle /\ SyncIdle
    /\ ParseIdle /\ ResultIdle /\ LabelIdle
    /\ stage = "records"
    /\ operators \in {Rows(names) : names \in SeqsUpTo(DbNames, MaxOperators)}
    /\ records \in {[i \in 1..Len(names) |-> NewRecord(names[i])] :
                        names \in SeqsUpTo(ApiNames, MaxRecords)}
    /\ filtered_records = << >>

\* filter_operators_from_db(records, postgres_client); filtered_records holds
\* the positions in records of the records of the returned list
FilterOperators ==
    /\ stage = "records"
    /\ LET name_cache == build_name_cache(operators)
           operator_info(i) == find_operator_with_cache(name_cache, records[i].operatorUserFullName)
           not_found_operators == {records[i].operatorUserFullName :
                                     i \in {j \in 1..Len(records) : operator_info(j) = None}}
       IN  /\ records' = [i \in 1..Len(records) |->
                            IF operator_info(i) # None
                            THEN [records[i] EXCEPT
                                    !.operatorUserId = operator_info(i)[1].id,
                                    !.operatorUserFullName = operator_info(i)[1].full_name]
                            ELSE records[i]]
           /\ IF SortRaises(not_found_operators)
              THEN stage' = "raised" /\ filtered_records' = << >>
              ELSE stage' = "returned" /\ filtered_records' = Indices(records, name_cache)
    /\ UNCHANGED <<operators, notOperator>>

NextOperators == FilterOperators

\* one list of call records against one operators table
SpecOperators == InitOperators /\ [][NextOperators]_vars

\* -------------------------------------------------------------------
\* C18: after filter_operators_from_db, the output holds, in input order,
\* exactly the records whose normalized operator name is a key of the cache
\* built from the operators table; each of them carries the cached id and
\* full name, every other record is as it was given, and a name that
\* normalizes to the empty string is never kept.
InCache(name) == HasKey(build_name_cache(operators), normalize_name(name))

C18_FilterByCache ==
    stage \in {"returned", "raised"} =>
        /\ filtered_records = SelectSeq([i \in 1..Len(records) |-> i],
                                        LAMBDA i : InCache(records[i].given))
        /\ \A i \in 1..Len(records) :
              IF InCache(records[i].given)
              THEN LET op == Lookup(build_name_cache(operators), normalize_name(records[i].given))
                   IN  /\ records[i].operatorUserId = op.id
                       /\ records[i].operatorUserFullName = op.full_name
              ELSE /\ records[i].operatorUserId = 0
                   /\ records[i].operatorUserFullName = records[i].given
        /\ \A p \in 1..Len(filtered_records) :
              normalize_name(records[filtered_records[p]].given) # << >>

\* ===================================================================
\* Further properties of the pipeline
\* ===================================================================
\* The event loop runs every ready callback and every timer expires; with
\* every remote call returning or timing out, a step that can be taken is
\* eventually taken.
SpecLive == Init /\ [][Next]_vars /\ WF_vars(Next)

\* C22: every task that acquired the gate gives back exactly one permit when
\* it ends, however it ends; if every remote call returns or times out, every
\* task waiting at the gate is admitted, every task settles, and the batch
\* returns with all N permits free.
C22_Permits ==
    /\ sem + Cardinality(Holders) = max_concurrent
    /\ (orch = "done" => sem = max_concurrent)
C22_Release ==
    \A i \in Eligible :
      (Holding(i) /\ pc'[i] # pc[i] /\ ~(pc'[i] \in {"warm", "request", "backoff60",
                                                    "jsonsleep", "errsleep"}))
        => pc'[i] = "done" /\ sem' = sem + 1
C22_GateReleaseAndProgress ==
    /\ []C22_Permits
    /\ [][C22_Release]_vars
    /\ \A i \in 1..MaxCalls : (pc[i] = "gate") ~> (pc[i] = "warm")
    /\ \A i \in 1..MaxCalls : calls[i] ~> Settled(i)
    /\ <>[](orch = "done" /\ sem = max_concurrent)

\* three records went through a gate of one permit: one raised while building
\* its prompt, one ended in None, one produced a report; the permit is free
C22_Witness ==
    /\ max_concurrent = 1 /\ orch = "done" /\ sem = 1
    /\ result = <<"exc", "none", "report">>

\* -------------------------------------------------------------------
\* C23: a status 200 with an empty or missing message is handled like a
\* parse failure: while inner attempts remain the record waits 1 unit in the
\* JSON loop and the remote call is issued again.
C23_EmptyRetriedByJsonLoop ==
    \A i \in traced :
      (/\ hist[i] # << >>
       /\ hist[i][Len(hist[i])] = "empty200"
       /\ invocations[i] < max_json_retries)
        => pc[i] = "jsonsleep"

\* -------------------------------------------------------------------
\* C25: when the batch returns, every eligible record is counted in exactly
\* one of successes, filtered, failed: the three counts add up to the number
\* of eligible records.
C25_StatsPartition ==
    orch = "done" =>
        /\ Len(successful_results) + filtered_count + error_count = Cardinality(Eligible)
        /\ Len(successful_results) = Cardinality({i \in Eligible : result[i] = "report"})
        /\ filtered_count = Cardinality({i \in Eligible : result[i] = "none"})
        /\ error_count = Cardinality({i \in Eligible : result[i] = "exc"})

\* two eligible records and one without transcript: one filtered, one failed
C25_Witness ==
    /\ orch = "done"
    /\ Cardinality(Eligible) = 2
    /\ successful_results = << >> /\ filtered_count = 1 /\ error_count = 1

\* -------------------------------------------------------------------
\* C26: the returned list is a subsequence of the eligible records: every
\* report belongs to a distinct record with a transcript, in submission
\* order; a record without transcript never runs and never sends a request.
C26_Subsequence ==
    /\ \A i \in Records \ Eligible :
          pc[i] = "absent" /\ result[i] = "pending" /\ tokens[i] = 0
    /\ \A k \in 1..Len(successful_results) :
          /\ successful_results[k] \in Eligible
          /\ result[successful_results[k]] = "report"
    /\ \A k, l \in 1..Len(successful_results) :
          k < l => successful_results[k] < successful_results[l]
    /\ (orch = "done" =>
          \A i \in Eligible : result[i] = "report" => InReports(i))

\* the record in the middle has no transcript; the reports of the other two
\* are returned in submission order
C26_Witness ==
    /\ orch = "done"
    /\ calls = <<TRUE, FALSE, TRUE>>
    /\ successful_results = <<1, 3>>

\* -------------------------------------------------------------------
\* C27: one record causes at most 9 requests: at most 3 invocations of
\* evaluate_call_async of at most 3 requests each; a terminal transport error
\* ends the record without a further invocation, and so does a response that
\* parsed.
Ended == {"transport_exhausted", "loop_exhausted", "report", "nonsales"}
C27_State ==
    \A i \in traced :
      /\ requests[i] <= 9
      /\ invocations[i] <= 3 /\ sent[i] <= 3
      /\ (invocations[i] = 0 => requests[i] = 0)
      /\ (invocations[i] > 0 => requests[i] <= 3 * (invocations[i] - 1) + sent[i])
      /\ cause[i] \in Ended => pc[i] \in {"errsleep", "done"}
C27_Step ==
    \A i \in traced :
      cause[i] \in Ended =>
        /\ requests'[i] = requests[i]
        /\ invocations'[i] = invocations[i]
        /\ json_attempt'[i] = 0
C27_RequestBound == []C27_State /\ [][C27_Step]_vars

\* nine requests: two invocations returned unparsable content on their third
\* request, the third invocation exhausted its transport budget
C27_Witness ==
    /\ requests[1] = 9 /\ invocations[1] = 3
    /\ cause[1] = "transport_exhausted"
    /\ pc[1] = "done" /\ result[1] = "none"

\* -------------------------------------------------------------------
\* C30: an exchange whose status is neither 200 nor >= 400 uses up one
\* attempt and is followed at once, without delay, by the next attempt; when
\* it was the third attempt the invocation raises the generic terminal error.
C30_State ==
    \A i \in traced :
      LET h == hist[i]
          n == Len(hist[i])
      IN /\ (n > 0 /\ h[n] = "other") =>
              /\ delays60[i] = DelaysFor(h, n - 1)
              /\ pc[i] # "backoff60"
              /\ IF n < max_retries
                 THEN pc[i] = "request" /\ sent[i] = n + 1 /\ attempt[i] = n
                 ELSE /\ cause[i] = "loop_exhausted"
                      /\ sent[i] = n
                      /\ pc[i] \in {"errsleep", "done"}
         /\ cause[i] = "loop_exhausted" => n = max_retries /\ h[n] = "other"
C30_Step ==
    \A i \in traced :
      cause[i] = "loop_exhausted" =>
        sent'[i] = sent[i] /\ requests'[i] = requests[i] /\ delays60'[i] = delays60[i]
C30_OtherStatus == []C30_State /\ [][C30_Step]_vars

\* three exchanges with such a status in a row: no delay, the generic error
C30_Witness ==
    /\ hist[1] = <<"other", "other", "other">>
    /\ cause[1] = "loop_exhausted"
    /\ delays60[1] = 0 /\ sent[1] = 3 /\ requests[1] = 3

\* ===================================================================
\* models/analysis_result.py: Recommendation.from_list, Agreement.from_list,
\* DeclineReason.from_list, as Result.from_list calls them
\*
\* An item is a dict: a function from its keys to their values, << >> being
\* the empty dict.  A value is None or a string Str(s); an issue, agreement
\* or description is a sequence of characters, a priority a sequence of the
\* tokens " ", "high", "HIGH", "medium", "low", "urgent".
MaxEntries == 2     \* most items in one list of the model's answer

\* item.get(key)
get(item, key) == IF key \in DOMAIN item THEN item[key] ELSE None

\* not value, for None and strings
Falsy(value) == value = None \/ value = Str(<< >>)

allowed_priorities == {<<"high">>, <<"medium">>, <<"low">>}
PriorityLower(s) == [k \in 1..Len(s) |-> IF s[k] = "HIGH" THEN "high" ELSE s[k]]

\* lines 100-103: the priority of a recommendation
priority_clean(item) ==
    LET clean == IF get(item, "priority") # None
                 THEN PriorityLower(strip(get(item, "priority")[1]))
                 ELSE << >>
    IN  IF clean \notin allowed_priorities THEN <<"medium">> ELSE clean

\* variant: an item whose priority is not an allowed one is dropped
RecommendationKeptStrict(item) ==
    /\ DOMAIN item # {}
    /\ ~(Falsy(get(item, "issue")) \/ Falsy(get(item, "recommendation")))
    /\ get(item, "priority") # None
    /\ PriorityLower(strip(get(item, "priority")[1])) \in allowed_priorities

\* lines 97-98 and 108-109: the items that are not skipped
RecommendationKept(item) ==
    /\ DOMAIN item # {}
    /\ ~(Falsy(get(item, "issue")) \/ Falsy(get(item, "recommendation")))

\* lines 111-124, without a criterion_mapping
RecommendationOf(item) ==
    [category |-> Clean(IF "category" \in DOMAIN item THEN item["category"] ELSE << >>),
     issue |-> get(item, "issue"),
     recommendation |-> get(item, "recommendation"),
     priority |-> priority_clean(item)]

RecommendationFromList(items) ==
    LET kept == SelectSeq(items, RecommendationKept)
    IN  [k \in 1..Len(kept) |-> RecommendationOf(kept[k])]

\* str(value).strip() if value is not None else ""
Stripped(value) == IF value # None THEN strip(value[1]) ELSE << >>

AgreementKept(item) == DOMAIN item # {} /\ Stripped(get(item, "agreement")) # << >>
AgreementFromList(items) ==
    LET kept == SelectSeq(items, AgreementKept)
    IN  [k \in 1..Len(kept) |->
            [amount |-> get(kept[k], "amount"),
             agreement |-> Stripped(get(kept[k], "agreement"))]]

DeclineKept(item) == DOMAIN item # {} /\ Stripped(get(item, "reason_description")) # << >>
DeclineReasonFromList(items) ==
    LET kept == SelectSeq(items, DeclineKept)
    IN  [k \in 1..Len(kept) |->
            [reason_type |-> Stripped(get(kept[k], "reason_type")),
             reason_description |-> Stripped(get(kept[k], "reason_description")),
             product_category |->
                IF Stripped(get(kept[k], "product_category")) # << >>
                THEN Str(Stripped(get(kept[k], "product_category")))
                ELSE None]]

\* Result.from_list, lines 213-214 and 233-235: decline_reasons is None for
\* an empty or missing list, and <<list>> otherwise
ResultEntries(d) ==
    [recommendations |-> RecommendationFromList(d.recommendations),
     agreements |-> AgreementFromList(d.agreements),
     decline_reasons |-> IF d.decline_reasons # << >>
                         THEN <<DeclineReasonFromList(d.decline_reasons)>>
                         ELSE None]

\* the items the model may send
RecommendationItems ==
    {<< >>,
     [category |-> <<" ", "a">>, issue |-> Str(<<"x">>), recommendation |-> Str(<<"x">>)],
     [issue |-> Str(<<"x">>), recommendation |-> None, priority |-> Str(<<"low">>)],
     [issue |-> Str(<<"x">>), recommendation |-> Str(<<"x">>), priority |-> Str(<<"low">>)]}
    \cup [category : {<<" ", "a">>},
          issue : {None, Str(<< >>), Str(<<" ">>), Str(<<"x">>)},
          recommendation : {Str(<< >>), Str(<<"x">>)},
          priority : {None, Str(<<" ", "HIGH", " ">>), Str(<<"urgent">>)}]
AgreementItems ==
    {<< >>} \cup [amount : {None, <<1>>},
                  agreement : {None, Str(<< >>), Str(<<" ">>), Str(<<" ", "x", " ">>),
                               Str(<<"x">>)}]
DeclineItems ==
    {<< >>} \cup [reason_type : {None, Str(<<" ", "r">>)},
                  reason_description : {None, Str(<< >>), Str(<<" ">>), Str(<<" ", "x", " ">>)},
                  product_category : {None, Str(<<" ">>), Str(<<"p", " ">>)}]

\* an answer with items in one of its three lists
Answers ==
    {[NoEntries EXCEPT !.recommendations = l] : l \in SeqsUpTo(RecommendationItems, MaxEntries)}
    \cup {[NoEntries EXCEPT !.agreements = l] : l \in SeqsUpTo(AgreementItems, MaxEntries)}
    \cup {[NoEntries EXCEPT !.decline_reasons = l] : l \in SeqsUpTo(DeclineItems, MaxEntries)}

InitEntries ==
    /\ PipelineIdle
    /\ ParseIdle /\ ResultIdle /\ LabelIdle /\ OperatorIdle /\ SyncIdle
    /\ stage = "answer"
    /\ entries \in Answers
    /\ survivors = NoEntries

\* Result.from_list builds the three lists
BuildEntries ==
    /\ stage = "answer"
    /\ survivors' = ResultEntries(entries)
    /\ stage' = "entries_built"
    /\ UNCHANGED <<entries, notEntry>>

NextEntries == BuildEntries

\* the lists of one answer, built into those of a Result
SpecEntries == InitEntries /\ [][NextEntries]_vars

\* -------------------------------------------------------------------
\* C21: the recommendations of a Result are, in order, the items with a
\* non-empty issue and a non-empty recommendation text, each with a priority
\* among high, medium, low (medium for any other or missing priority, which
\* never drops an item); its agreements are, in order, the items whose
\* trimmed agreement text is non-empty, and its decline reasons those whose
\* trimmed description is non-empty; every other item is dropped.
NonEmpty(item, key) ==
    key \in DOMAIN item /\ item[key] # None /\ item[key] # Str(<< >>)
NonBlank(item, key) ==
    key \in DOMAIN item /\ item[key] # None
    /\ \E k \in 1..Len(item[key][1]) : item[key][1][k] # " "
Positions(items, Ok(_)) == SelectSeq([k \in 1..Len(items) |-> k], LAMBDA k : Ok(items[k]))
RecOk(item) == NonEmpty(item, "issue") /\ NonEmpty(item, "recommendation")
AgrOk(item) == NonBlank(item, "agreement")
DecOk(item) == NonBlank(item, "reason_description")
GivenPriorities ==
    (Str(<<" ", "HIGH", " ">>) :> <<"high">>) @@ (Str(<<"low">>) :> <<"low">>)

C21_SurvivingEntries ==
    stage = "entries_built" =>
        LET recs == Positions(entries.recommendations, RecOk)
            agrs == Positions(entries.agreements, AgrOk)
            decs == Positions(entries.decline_reasons, DecOk)
            declines == IF survivors.decline_reasons = None THEN << >>
                        ELSE survivors.decline_reasons[1]
        IN  /\ Len(survivors.recommendations) = Len(recs)
            /\ \A k \in 1..Len(recs) :
                 LET item == entries.recommendations[recs[k]]
                     rec == survivors.recommendations[k]
                 IN  /\ rec.issue = item.issue /\ rec.issue[1] # << >>
                     /\ rec.recommendation = item.recommendation
                     /\ rec.recommendation[1] # << >>
                     /\ rec.priority \in {<<"high">>, <<"medium">>, <<"low">>}
                     /\ rec.priority =
                          IF "priority" \in DOMAIN item
                             /\ item.priority \in DOMAIN GivenPriorities
                          THEN GivenPriorities[item.priority] ELSE <<"medium">>
            /\ Len(survivors.agreements) = Len(agrs)
            /\ \A k \in 1..Len(agrs) :
                 /\ survivors.agreements[k].agreement # << >>
                 /\ survivors.agreements[k].agreement
                      = strip(entries.agreements[agrs[k]].agreement[1])
            /\ Len(declines) = Len(decs)
            /\ \A k \in 1..Len(decs) :
                 /\ declines[k].reason_description # << >>
                 /\ declines[k].reason_description
                      = strip(entries.decline_reasons[decs[k]].reason_description[1])

\* of two recommendations the first was dropped for its empty issue and the
\* second, with a priority outside the allowed ones, survived as medium
C21_Witness ==
    /\ stage = "entries_built"
    /\ Len(entries.recommendations) = 2
    /\ entries.recommendations[1] # << >>
    /\ get(entries.recommendations[1], "issue") = Str(<< >>)
    /\ get(entries.recommendations[2], "priority") = Str(<<"urgent">>)
    /\ Len(survivors.recommendations) = 1
    /\ survivors.recommendations[1].priority = <<"medium">>

\* ===================================================================
\* utils/criterion_normalizer.py: entries of equal similarity, and
\* normalize_category_only
\*
\* lines 186-190: the first original category of each normalized category,
\* in the order of the mapping
RECURSIVE unique_categories(_)
unique_categories(mapping) ==
    IF mapping = << >> THEN << >>
    ELSE LET unique == unique_categories(SubSeq(mapping, 1, Len(mapping) - 1))
             last == mapping[Len(mapping)]
         IN  IF HasKey(unique, last.key[1]) THEN unique
             ELSE Append(unique, [key |-> last.key[1], value |-> last.value[1]])

\* lines 197-205: the loop over unique_categories.items() from item p on
RECURSIVE BestCategory(_, _, _, _)
BestCategory(unique, p, key, best) ==
    IF p > Len(unique) THEN best
    ELSE BestCategory(unique, p + 1, key,
                      IF Greater(ratio(key, unique[p].key), best.similarity)
                      THEN [similarity |-> ratio(key, unique[p].key), match |-> p]
                      ELSE best)

\* normalize_category_only(llm_category, mapping)
normalize_category_only(category, mapping) ==
    LET unique == unique_categories(mapping)
        key == normalize_text(category)
    IN  IF HasKey(unique, key) THEN Lookup(unique, key)
        ELSE LET best == BestCategory(unique, 1, key,
                                      [similarity |-> [num |-> 0, den |-> 1], match |-> 0])
             IN  IF meets_threshold(best.similarity) THEN unique[best.match].value
                 ELSE Clean(category)

\* labels close to several canonical ones at once
TieCategories == {<<"a">>, <<"a", "a", "a", "b">>, <<"b", "a", "a", "a">>}
TieIndicators == {<<"a", "a", "b">>, <<"a", "a", "a", "b">>, <<"b", "a", "a", "a">>,
                  <<"a", "a", "a", "a", "b">>}
TieLabels == {<<"a">>, <<"a", "a", "a">>} \X {<<"a", "a", "a">>, <<"a", "a", "a", "a">>}

InitTie ==
    /\ PipelineIdle
    /\ EntryIdle /\ SyncIdle
    /\ ParseIdle /\ ResultIdle /\ OperatorIdle
    /\ stage = "label"
    /\ criteria \in SeqsUpTo(TieCategories \X TieIndicators, MaxCriteria)
    /\ llm \in TieLabels
    /\ labels = << << >>, << >> >>

\* the category of a recommendation: normalize_category_only with the mapping
\* built from the taxonomy; a recommendation has no criterion
NormalizeCategory ==
    /\ stage = "label"
    /\ labels' = <<normalize_category_only(llm[1], build_criterion_mapping(criteria)), << >> >>
    /\ stage' = "category_normalized"
    /\ UNCHANGED <<criteria, llm, notLabel>>

NextTie == NormalizeLabel \/ NormalizeCategory

\* one model label against a taxonomy of similar entries
SpecTie == InitTie /\ [][NextTie]_vars

\* -------------------------------------------------------------------
\* C24: when the exact lookup misses and several entries share the greatest
\* similarity, find_best_match and normalize_category_only return the one
\* that comes first in the mapping's order (the similarity reaching 0.85).
AtLeast(x, y) == x.num * y.den >= y.num * x.den
\* the first position of sims holding its greatest similarity
FirstBest(sims) ==
    MinOf({p \in 1..Len(sims) : \A q \in 1..Len(sims) : AtLeast(sims[p], sims[q])})
PairSims ==
    LET mapping == build_criterion_mapping(criteria)
    IN  [p \in 1..Len(mapping) |-> avg_similarity(Key(llm), mapping[p].key)]
CategorySims ==
    LET unique == unique_categories(build_criterion_mapping(criteria))
    IN  [p \in 1..Len(unique) |-> ratio(normalize_text(llm[1]), unique[p].key)]
CategoryMissed ==
    ~HasKey(unique_categories(build_criterion_mapping(criteria)), normalize_text(llm[1]))
Over85(x) == 100 * x.num >= 85 * x.den

max_attempts == 3            \* @typed_retry(max_attempts=3, delay=1.0)

\* What one exchange of evaluate_call can end in:
\*   ok200    status 200, a body LLMResponse.from_dict accepts
\*   badbody  status 200, a body on which from_dict raises (a missing key)
\*   s429, s5xx, s4xx, other   as in evaluate_call_async
\*   neterr   a requests exception (timeout, connection, undecodable body)
SyncExchanges == {"ok200", "badbody", "s429", "s5xx", "s4xx", "neterr", "other"}

\* The branch of the status chain of evaluate_call (lines 72-116).
SyncBranch(x) ==
    CASE x = "ok200"   -> "return"
      [] x = "badbody" -> "raise"
      [] x = "s429"    -> "retry60"
      [] x = "s5xx"    -> "retry60"
      [] x = "s4xx"    -> "retry60"
      [] x = "neterr"  -> "retry60"
      [] x = "other"   -> "fallthrough"

\* variant: the wrapper sleeps after every failed attempt
sleep_after_failure_always(a) == TRUE
\* typed_retry: if attempt < max_attempts: time.sleep(delay)
sleep_after_failure(a) == a < max_attempts

\* typed_retry: for attempt in range(1, max_attempts + 1): is there a next
\* iteration after a
retry_continues(a) == a + 1 <= max_attempts

\* typed_retry after a failed attempt and its sleep, if any: the next
\* attempt calls evaluate_call anew and sends its first request, or the loop
\* is over and the last exception is raised
NextAttempt ==
    IF retry_continues(retry_attempt)
    THEN /\ retry_attempt' = retry_attempt + 1
         /\ post_attempt' = 0
         /\ posts' = posts + 1
         /\ sync_pc' = "post"
    ELSE /\ sync_pc' = "raised"
         /\ UNCHANGED <<retry_attempt, post_attempt, posts>>

\* an exception leaves evaluate_call and reaches typed_retry's handler
Failed ==
    IF sleep_after_failure(retry_attempt)
    THEN /\ sync_pc' = "sleep1"
         /\ sleeps' = Append(sleeps, 1)
         /\ UNCHANGED <<retry_attempt, post_attempt, posts>>
    ELSE /\ NextAttempt
         /\ sleeps' = sleeps

\* the caller has entered the wrapper: attempt 1 of typed_retry, attempt 0 of
\* evaluate_call, whose request is on its way
InitSync ==
    /\ PipelineIdle
    /\ stage = "idle"
    /\ ParseIdle /\ ResultIdle /\ LabelIdle /\ OperatorIdle /\ EntryIdle
    /\ sync_pc = "post"
    /\ retry_attempt = 1
    /\ post_attempt = 0
    /\ posts = 1
    /\ sleeps = << >>
    /\ seen = {}

\* session.post returns or raises, and the code runs to its next blocking call
SyncRespond ==
    /\ sync_pc = "post"
    /\ \E x \in SyncExchanges :
         /\ seen' = seen \cup {x}
         /\ CASE SyncBranch(x) = "return" ->
                   /\ sync_pc' = "returned"
                   /\ UNCHANGED <<retry_attempt, post_attempt, posts, sleeps>>
              [] SyncBranch(x) = "raise" ->
                   Failed
              [] SyncBranch(x) = "retry60" ->
                   IF retry_allowed(post_attempt)
                   THEN /\ sync_pc' = "sleep60"
                        /\ sleeps' = Append(sleeps, 60)
                        /\ UNCHANGED <<retry_attempt, post_attempt, posts>>
                   ELSE Failed
              [] SyncBranch(x) = "fallthrough" ->
                   IF loop_continues(post_attempt)
                   THEN /\ post_attempt' = post_attempt + 1
                        /\ posts' = posts + 1
                        /\ UNCHANGED <<sync_pc, retry_attempt, sleeps>>
                   ELSE Failed
    /\ UNCHANGED notSync

\* time.sleep(60) is over: continue with the next attempt of evaluate_call
SyncSleep60Done ==
    /\ sync_pc = "sleep60"
    /\ post_attempt' = post_attempt + 1
    /\ posts' = posts + 1
    /\ sync_pc' = "post"
    /\ UNCHANGED <<retry_attempt, sleeps, seen, notSync>>

\* time.sleep(delay) of typed_retry is over
SyncSleep1Done ==
    /\ sync_pc = "sleep1"
    /\ NextAttempt
    /\ UNCHANGED <<sleeps, seen, notSync>>

NextSync == SyncRespond \/ SyncSleep60Done \/ SyncSleep1Done

\* one call of the synchronous evaluate_call
SpecSync == InitSync /\ [][NextSync]_vars

\* -------------------------------------------------------------------
\* C29: typed_retry runs evaluate_call's loop of 3 attempts up to 3 times,
\* on any exception the loop lets out.  When every request fails with status
\* 500, one call sends 9 requests before the error reaches the caller, with
\* 60-unit delays inside each round, a 1-unit delay between rounds and none
\* after the last.
Persistent500 == seen \subseteq {"s5xx"}
SleepPattern == <<60, 60, 1, 60, 60, 1, 60, 60>>
C29_State ==
    /\ posts <= 9 /\ retry_attempt <= 3 /\ post_attempt <= 2
    /\ Persistent500 =>
          /\ sync_pc # "returned"
          /\ posts = 3 * (retry_attempt - 1) + post_attempt + 1
          /\ Len(sleeps) <= Len(SleepPattern)
          /\ sleeps = SubSeq(SleepPattern, 1, Len(sleeps))
          /\ sync_pc = "post" => Len(sleeps) = posts - 1
          /\ sync_pc \in {"sleep60", "sleep1"} => Len(sleeps) = posts
          /\ sync_pc = "raised" => posts = 9 /\ sleeps = SleepPattern
    /\ sync_pc = "raised" => retry_attempt = 3
C29_Step ==
    /\ (sync_pc = "sleep1" /\ sync_pc' # "sleep1") =>
          /\ sync_pc' = "post" /\ post_attempt' = 0
          /\ retry_attempt' = retry_attempt + 1 /\ posts' = posts + 1
    /\ sync_pc \in {"raised", "returned"} => posts' = posts /\ sleeps' = sleeps
C29_TwoRetryLayers == []C29_State /\ [][C29_Step]_vars

\* nine requests, each answered with status 500, and the error is raised
C29_Witness ==
    /\ sync_pc = "raised"
    /\ seen = {"s5xx"}
    /\ posts = 9
    /\ sleeps = SleepPattern

====
